---------------------------- MODULE Spec2Model ----------------------------
(***************************************************************************)
(* A model of the LVT conversion tools: the nuScenes converter             *)
(* (src/src/nuscenes-ct.py), the Waymo converter (src/src/waymo-ct.py)     *)
(* and the geometry utilities (src/src/utils/geometry_utils.py).           *)
(*                                                                         *)
(* Numbers.  Coordinates, sizes and matrix entries are exact integers.     *)
(* A unit quaternion (w, x, y, z) is stored doubled, <<2w, 2x, 2y, 2z>>,   *)
(* and ranges over the Hurwitz units (for instance <<2,0,0,0>>, the        *)
(* identity, <<0,0,0,2>>, a half turn about z, and <<1,1,1,1>>, a third    *)
(* of a turn about the diagonal): their products and their rotation        *)
(* matrices are exact in integers and the group is not commutative.        *)
(* A box heading is counted in multiples of pi.                            *)
(***************************************************************************)
EXTENDS Integers, Sequences, FiniteSets, TLC

(***************************************************************************)
(* Bounds of the model.                                                    *)
(***************************************************************************)
MaxSamples == 3      \* samples (frames) in a source stream
MaxAnns == 3         \* annotations (labels) in one frame
MaxPoints == 2       \* points in one nuScenes lidar sweep
MaxCoord == 3        \* box origins of the second box lie in (0..MaxCoord)^3
NearCoord == 1       \* box origins of the first box are <<c,c,c>>, c in 0..NearCoord

(***************************************************************************)
(* Vectors, matrices and quaternions (numpy, pyquaternion, scipy).         *)
(***************************************************************************)
VAdd(a, b) == <<a[1] + b[1], a[2] + b[2], a[3] + b[3]>>

VNeg(a) == <<-a[1], -a[2], -a[3]>>

\* numpy: a 3x3 matrix (a tuple of rows) times a column vector
MatVec3(m, v) ==
    [r \in 1..3 |-> m[r][1] * v[1] + m[r][2] * v[2] + m[r][3] * v[3]]

\* numpy.matmul of a 4x4 matrix with a 4x1 column
MatVec4(m, v) ==
    [r \in 1..4 |-> m[r][1] * v[1] + m[r][2] * v[2] + m[r][3] * v[3] + m[r][4] * v[4]]

\* the Hamilton product of two 4-tuples, without any scaling
QMulRaw(a, b) ==
    << a[1]*b[1] - a[2]*b[2] - a[3]*b[3] - a[4]*b[4],
       a[1]*b[2] + a[2]*b[1] + a[3]*b[4] - a[4]*b[3],
       a[1]*b[3] - a[2]*b[4] + a[3]*b[1] + a[4]*b[2],
       a[1]*b[4] + a[2]*b[3] - a[3]*b[2] + a[4]*b[1] >>

\* pyquaternion Quaternion.__mul__ on doubled unit quaternions
QMul(a, b) == [k \in 1..4 |-> QMulRaw(a, b)[k] \div 2]

\* pyquaternion Quaternion.inverse: conjugate / norm^2, the norm being 1
QInverse(q) == <<q[1], -q[2], -q[3], -q[4]>>

\* pyquaternion Quaternion.rotation_matrix of the doubled quaternion <<W,X,Y,Z>>
RotationMatrix(q) ==
    LET W == q[1]  X == q[2]  Y == q[3]  Z == q[4]
    IN  << << 1 - ((Y*Y + Z*Z) \div 2), (X*Y - Z*W) \div 2, (X*Z + Y*W) \div 2 >>,
           << (X*Y + Z*W) \div 2, 1 - ((X*X + Z*Z) \div 2), (Y*Z - X*W) \div 2 >>,
           << (X*Z - Y*W) \div 2, (Y*Z + X*W) \div 2, 1 - ((X*X + Y*Y) \div 2) >> >>

RECURSIVE ISqrtSearch(_, _, _)
\* the largest r in lo..hi with r*r <= n (lo*lo <= n < (hi+1)*(hi+1))
ISqrtSearch(lo, hi, n) ==
    IF lo >= hi THEN lo
    ELSE LET mid == (lo + hi + 1) \div 2
         IN  IF mid * mid <= n THEN ISqrtSearch(mid, hi, n)
             ELSE ISqrtSearch(lo, mid - 1, n)

\* math.sqrt, rounded down to thousandths and counted in thousandths
sqrt(n) == ISqrtSearch(0, 1000 * (n + 1), n * 1000000)

(***************************************************************************)
(* src/src/utils/geometry_utils.py                                         *)
(***************************************************************************)
\* scipy Rotation.from_matrix followed by as_quat(): the quaternion of a
\* rotation matrix in scalar-LAST order (x, y, z, w), doubled.
AsQuat(m) ==
    LET trace == m[1][1] + m[2][2] + m[3][3]
        decision == <<m[1][1], m[2][2], m[3][3], trace>>
        choice == CHOOSE c \in 1..4 :
                     /\ \A d \in 1..4 : decision[d] <= decision[c]
                     /\ \A d \in 1..(c - 1) : decision[d] < decision[c]
        i == choice
        j == (i % 3) + 1
        k == (j % 3) + 1
        raw == IF choice = 4
               THEN << m[3][2] - m[2][3], m[1][3] - m[3][1],
                       m[2][1] - m[1][2], 1 + trace >>
               ELSE [c \in 1..4 |->
                        IF c = i THEN 1 - trace + 2 * m[i][i]
                        ELSE IF c = j THEN m[j][i] + m[i][j]
                        ELSE IF c = k THEN m[k][i] + m[i][k]
                        ELSE m[k][j] - m[j][k]]
        norm == ISqrtSearch(0, 8, raw[1]*raw[1] + raw[2]*raw[2]
                                   + raw[3]*raw[3] + raw[4]*raw[4])
    IN  [c \in 1..4 |-> (2 * raw[c]) \div norm]

\* translation_and_rotation(transform_matrix)
translation_and_rotation(transform_matrix) ==
    LET translation == << transform_matrix[1][4], transform_matrix[2][4],
                          transform_matrix[3][4] >>
        rotation_matrix == [r \in 1..3 |-> [c \in 1..3 |-> transform_matrix[r][c]]]
        quat == AsQuat(rotation_matrix)
        \* (x,y,z,w) to (w,x,y,z)
        rotation == << quat[4], quat[1], quat[2], quat[3] >>
    IN  [translation |-> translation, rotation |-> rotation]

\* A mutant of AxisOverlaps: touching faces do not count as overlapping.
AxisOverlapsStrict(o1, s1, o2, s2, i) ==
    LET a_max == 2 * o1[i] + s1[i]
        a_min == 2 * o1[i] - s1[i]
        b_max == 2 * o2[i] + s2[i]
        b_min == 2 * o2[i] - s2[i]
    IN  a_min < b_max /\ a_max > b_min

\* A mutant of AxisOverlaps: only the first comparison is strict.
AxisOverlapsLopsided(o1, s1, o2, s2, i) ==
    LET a_max == 2 * o1[i] + s1[i]
        a_min == 2 * o1[i] - s1[i]
        b_max == 2 * o2[i] + s2[i]
        b_min == 2 * o2[i] - s2[i]
    IN  a_min < b_max /\ a_max >= b_min

\* One axis of is_overlapping's loop.  a_max, a_min, b_max, b_min are kept
\* doubled (o + s/2 becomes 2*o + s), which leaves every comparison as it is.
AxisOverlaps(o1, s1, o2, s2, i) ==
    LET a_max == 2 * o1[i] + s1[i]
        a_min == 2 * o1[i] - s1[i]
        b_max == 2 * o2[i] + s2[i]
        b_min == 2 * o2[i] - s2[i]
    IN  a_min <= b_max /\ a_max >= b_min

RECURSIVE OverlapLoop(_, _, _)
\* for i in range(3): ... if not (...): return False;  return True
OverlapLoop(box1, box2, i) ==
    IF i > 3 THEN TRUE
    ELSE IF ~AxisOverlaps(box1.origin, box1.size, box2.origin, box2.size, i)
         THEN FALSE
         ELSE OverlapLoop(box1, box2, i + 1)

is_overlapping(box1, box2) == OverlapLoop(box1, box2, 1)

box_dist(box1, box2) ==
    LET d_x == (box1.origin[1] - box2.origin[1]) * (box1.origin[1] - box2.origin[1])
        d_y == (box1.origin[2] - box2.origin[2]) * (box1.origin[2] - box2.origin[2])
        d_z == (box1.origin[3] - box2.origin[3]) * (box1.origin[3] - box2.origin[3])
    IN  sqrt(d_x + d_y + d_z)


(***************************************************************************)
(* Inputs of the geometry utilities.                                       *)
(***************************************************************************)
SizeSet == { <<2, 2, 2>>, <<0, 0, 0>>, <<1, 2, 4>> }

Cube(n) == { <<x, y, z>> : x \in 0..n, y \in 0..n, z \in 0..n }

Diagonal(n) == { <<c, c, c>> : c \in 0..n }

Boxes1 == { [origin |-> o, size |-> s] : o \in Diagonal(NearCoord), s \in SizeSet }

Boxes2 == { [origin |-> o, size |-> s] : o \in Cube(MaxCoord), s \in SizeSet }

DefaultBox == [origin |-> <<0, 0, 0>>, size |-> <<0, 0, 0>>]

(***************************************************************************)
(* Inputs of the converters: records of the nuScenes database and frames   *)
(* of a Waymo tfrecord.                                                    *)
(***************************************************************************)
SeqsUpTo(S, n) == UNION { [1..k -> S] : k \in 0..n }

QIdentity == <<2, 0, 0, 0>>

\* ego_pose / calibrated_sensor records: translation and rotation (w,x,y,z)
PoseRecords ==
    { [translation |-> <<1, 0, 0>>, rotation |-> QIdentity],
      [translation |-> <<0, 0, 0>>, rotation |-> QIdentity],
      [translation |-> <<1, 2, 0>>, rotation |-> <<1, 1, 1, 1>>] }

\* sample_annotation records; 'size' is (width, length, height) in nuScenes
Annotations ==
    { [translation |-> <<2, 0, 0>>, size |-> <<1, 2, 3>>,
       rotation |-> QIdentity, category_name |-> "vehicle.car"],
      [translation |-> <<0, 3, 1>>, size |-> <<2, 5, 2>>,
       rotation |-> <<1, 1, 1, 1>>, category_name |-> "human.pedestrian"],
      [translation |-> <<1, 1, 1>>, size |-> <<4, 1, 2>>,
       rotation |-> <<0, 0, 0, 2>>, category_name |-> "vehicle.bicycle"] }

\* lidar points as read by LidarPointCloud.from_file: (x, y, z, intensity)
LidarPoints == { <<1, 0, 0, 7>>, <<0, 2, 3, 9>>, <<-1, 1, 4, 5>> }

NoPose == [translation |-> <<0, 0, 0>>, rotation |-> QIdentity]

\* samples whose annotations and ego pose vary
BoxSamples ==
    { [anns |-> a, ego |-> e, calib |-> NoPose, points |-> <<>>] :
        a \in SeqsUpTo(Annotations, MaxAnns), e \in PoseRecords }

\* samples whose lidar sweep and sensor calibration vary
LidarSamples ==
    { [anns |-> <<>>, ego |-> NoPose, calib |-> c, points |-> p] :
        p \in SeqsUpTo(LidarPoints, MaxPoints), c \in PoseRecords }

(***************************************************************************)
(* src/src/nuscenes-ct.py                                                  *)
(***************************************************************************)
EmptyLists ==
    [origins |-> <<>>, sizes |-> <<>>, rotations |-> <<>>,
     annotation_names |-> <<>>, confidences |-> <<>>]

\* nuscenes Box.translate(x): center += x
BoxTranslate(box, x) == [box EXCEPT !.center = VAdd(box.center, x)]

\* nuscenes Box.rotate(q): center = R(q) . center; orientation = q * orientation
BoxRotate(box, q) ==
    [box EXCEPT !.center = MatVec3(RotationMatrix(q), box.center),
                !.orientation = QMul(q, box.orientation)]

\* lines 86-91: the annotation's box moved into the vehicle frame
NuscBoxInVehicleFrame(annotation_metadata, poserecord) ==
    LET box == [center |-> annotation_metadata.translation,
                wlh |-> annotation_metadata.size,
                orientation |-> annotation_metadata.rotation]
    IN  BoxRotate(BoxTranslate(box, VNeg(poserecord.translation)),
                  QInverse(poserecord.rotation))

\* lines 83-98: one iteration of extract_bounding's loop
NuscBoundingIter(l, annotation_metadata, poserecord) ==
    LET box == NuscBoxInVehicleFrame(annotation_metadata, poserecord)
    IN  [origins |-> Append(l.origins, box.center),
         sizes |-> Append(l.sizes, annotation_metadata.size),
         rotations |-> Append(l.rotations, box.orientation),
         annotation_names |-> Append(l.annotation_names, annotation_metadata.category_name),
         confidences |-> Append(l.confidences, 100)]

\* range(0, len(sample['anns']) - 1): the number of iterations of the loop
NuscLoopCount(sample_) ==
    IF Len(sample_.anns) - 1 > 0 THEN Len(sample_.anns) - 1 ELSE 0

RECURSIVE NuscBoundingAfter(_, _)
\* the five lists of extract_bounding after n iterations of its loop
NuscBoundingAfter(sample_, n) ==
    IF n = 0 THEN EmptyLists
    ELSE NuscBoundingIter(NuscBoundingAfter(sample_, n - 1), sample_.anns[n], sample_.ego)

\* lines 110-116: one iteration of extract_pred_bounding's loop
NuscPredIter(l, annotation_metadata) ==
    [origins |-> Append(l.origins, annotation_metadata.translation),
     sizes |-> Append(l.sizes, annotation_metadata.size),
     rotations |-> Append(l.rotations, annotation_metadata.rotation),
     annotation_names |-> Append(l.annotation_names, annotation_metadata.category_name),
     confidences |-> Append(l.confidences, 100)]

RECURSIVE NuscPredAfter(_, _)
\* the five lists of extract_pred_bounding after n iterations of its loop
NuscPredAfter(sample_, n) ==
    IF n = 0 THEN EmptyLists
    ELSE NuscPredIter(NuscPredAfter(sample_, n - 1), sample_.anns[n])

\* the writer call that ends extract_bounding / extract_pred_bounding
BoxWrite(fn, frame_num_, l) ==
    [fn |-> fn, frame_num |-> frame_num_,
     origins |-> l.origins, sizes |-> l.sizes, rotations |-> l.rotations,
     annotation_names |-> l.annotation_names, confidences |-> l.confidences]

\* LidarPointCloud.rotate(rot_matrix): the first three rows are rotated
PcRotate(points, rot_matrix) ==
    [k \in 1..Len(points) |->
        LET v == MatVec3(rot_matrix, points[k])
        IN  <<v[1], v[2], v[3], points[k][4]>>]

\* LidarPointCloud.translate(x): x is added to the first three rows
PcTranslate(points, x) ==
    [k \in 1..Len(points) |->
        <<points[k][1] + x[1], points[k][2] + x[2], points[k][3] + x[3], points[k][4]>>]

\* np.transpose(points.points[:3, :])
PcXYZ(points) ==
    [k \in 1..Len(points) |-> <<points[k][1], points[k][2], points[k][3]>>]

\* A mutant of NuscLidarPoints: the sweep is translated before it is rotated.
NuscLidarPointsTranslateFirst(sample_) ==
    LET translation == sample_.calib.translation
        rotation == sample_.calib.rotation
    IN  PcXYZ(PcRotate(PcTranslate(sample_.points, translation), RotationMatrix(rotation)))

\* lines 139-150: the sweep of the sample in the vehicle frame
NuscLidarPoints(sample_) ==
    LET translation == sample_.calib.translation
        rotation == sample_.calib.rotation
    IN  PcXYZ(PcTranslate(PcRotate(sample_.points, RotationMatrix(rotation)), translation))

\* line 152: the writer call that ends extract_lidar
NuscLidarWrite(sample_, frame_num_) ==
    [fn |-> "add_lidar_frame", sensor |-> "LIDAR_TOP", frame_num |-> frame_num_,
     points |-> NuscLidarPoints(sample_),
     translation |-> sample_.calib.translation, rotation |-> sample_.calib.rotation]

\* def extract_pred_bounding(sample, frame_num, target_path): line 102
PredBoundingParams == 3

\* extract_pred_bounding(nusc, sample, frame_num, output_path): line 192
PredBoundingArgs == 4

(***************************************************************************)
(* src/src/waymo-ct.py                                                     *)
(***************************************************************************)
\* "There are 5 pointclouds corresponding to the 5 sensors": line 153
NumLasers == 5

Lidar_Name ==
    (0 :> "UNKNOWN") @@ (1 :> "TOP") @@ (2 :> "FRONT") @@ (3 :> "SIDE_LEFT")
    @@ (4 :> "SIDE_RIGHT") @@ (5 :> "REAR")

annotation_dict ==
    (1 :> "Vehicle") @@ (2 :> "Pedestrian") @@ (3 :> "Sign") @@ (4 :> "Cyclist")

\* A transform (frame.pose.transform, c.extrinsic.transform) is kept as the
\* 4x4 matrix its sixteen row-major numbers stand for, which is what
\* np.array(...).reshape((4, 4)) makes of them.
Mat4(rot, t) ==
    << <<rot[1][1], rot[1][2], rot[1][3], t[1]>>,
       <<rot[2][1], rot[2][2], rot[2][3], t[2]>>,
       <<rot[3][1], rot[3][2], rot[3][3], t[3]>>,
       <<0, 0, 0, 1>> >>

PoseMatrix(p) == Mat4(RotationMatrix(p.rotation), p.translation)

\* laser labels: a box in the vehicle frame and a type (0 is TYPE_UNKNOWN)
Labels ==
    { [box |-> [center_x |-> 2, center_y |-> 0, center_z |-> 0,
                width |-> 1, length |-> 2, height |-> 3, heading |-> 0],
       type |-> 1],
      [box |-> [center_x |-> 0, center_y |-> 3, center_z |-> 1,
                width |-> 2, length |-> 5, height |-> 2, heading |-> 1],
       type |-> 2],
      [box |-> [center_x |-> 1, center_y |-> 1, center_z |-> 1,
                width |-> 4, length |-> 1, height |-> 2, heading |-> 0],
       type |-> 0] }

\* The laser calibrations a frame carries, in the order of the record (not
\* sorted).  v tells two recordings of the extrinsics apart.
LaserCalibrations(v) ==
    [k \in 1..NumLasers |->
        LET name == NumLasers + 1 - k
        IN  [name |-> name,
             extrinsic |-> Mat4(RotationMatrix(IF name % 2 = v THEN <<1, 1, 1, 1>>
                                                               ELSE QIdentity),
                                <<name, v, 2>>)]]

\* what frame_utils.convert_range_image_to_point_cloud returns: one point
\* cloud per laser calibration of the frame, in the order of their names
PointClouds(calibrations) ==
    [k \in 1..Len(calibrations) |-> << <<k, 0, 1>> >>]

Frames ==
    { [pose |-> PoseMatrix(p), laser_labels |-> ls,
       laser_calibrations |-> LaserCalibrations(v)] :
        p \in PoseRecords, ls \in SeqsUpTo(Labels, MaxAnns), v \in 0..1 }

NoFrame == [pose |-> PoseMatrix(NoPose), laser_labels |-> <<>>,
            laser_calibrations |-> <<>>]

\* Quaternion(axis=[0.0, 0.0, 1.0], radians=heading).q, the heading counted
\* in multiples of pi: (cos(heading/2), 0, 0, sin(heading/2)), doubled
HeadingQuat(heading) ==
    LET h == heading % 4
    IN  IF h = 0 THEN <<2, 0, 0, 0>>
        ELSE IF h = 1 THEN <<0, 0, 0, 2>>
        ELSE IF h = 2 THEN <<-2, 0, 0, 0>>
        ELSE <<0, 0, 0, -2>>

\* lines 122-123: the label's centre multiplied by the frame pose
WaymoOrigin(transform, label) ==
    LET v == MatVec4(transform, <<label.box.center_x, label.box.center_y,
                                  label.box.center_z, 1>>)
    IN  <<v[1], v[2], v[3]>>

\* A mutant of WaymoSize: length before width.
WaymoSizeLengthFirst(label) == <<label.box.length, label.box.width, label.box.height>>

\* line 124
WaymoSize(label) == <<label.box.width, label.box.length, label.box.height>>

\* A mutant of WaymoBoundingIter: the append to confidences is missing.
WaymoBoundingIterNoConfidence(l, label, transform) ==
    LET two == [l EXCEPT !.origins = Append(l.origins, WaymoOrigin(transform, label)),
                         !.sizes = Append(l.sizes, WaymoSize(label))]
    IN  IF label.type \notin DOMAIN annotation_dict
        THEN [two EXCEPT !.raised = TRUE]
        ELSE [two EXCEPT
                !.annotation_names = Append(l.annotation_names, annotation_dict[label.type]),
                !.rotations = Append(l.rotations, HeadingQuat(label.box.heading))]

\* lines 122-128: one iteration of extract_bounding's loop.  annotation_dict
\* raises KeyError for a type it does not hold, after two of the five appends
WaymoBoundingIter(l, label, transform) ==
    LET two == [l EXCEPT !.origins = Append(l.origins, WaymoOrigin(transform, label)),
                         !.sizes = Append(l.sizes, WaymoSize(label))]
    IN  IF label.type \notin DOMAIN annotation_dict
        THEN [two EXCEPT !.raised = TRUE]
        ELSE [two EXCEPT
                !.annotation_names = Append(l.annotation_names, annotation_dict[label.type]),
                !.rotations = Append(l.rotations, HeadingQuat(label.box.heading)),
                !.confidences = Append(l.confidences, 100)]

RECURSIVE WaymoBoundingAfter(_, _)
\* the five lists of extract_bounding after n iterations of its loop, or as
\* the exception that ended the loop earlier left them
WaymoBoundingAfter(frame_, n) ==
    IF n = 0 THEN [origins |-> <<>>, sizes |-> <<>>, rotations |-> <<>>,
                   annotation_names |-> <<>>, confidences |-> <<>>, raised |-> FALSE]
    ELSE LET prev == WaymoBoundingAfter(frame_, n - 1)
         IN  IF prev.raised THEN prev
             ELSE WaymoBoundingIter(prev, frame_.laser_labels[n], frame_.pose)

\* sorted(frame.context.laser_calibrations, key=lambda c: c.name)
SortedCalibrations(cals) ==
    [k \in 1..Len(cals) |->
        CHOOSE c \in { cals[x] : x \in 1..Len(cals) } :
            Cardinality({ x \in 1..Len(cals) : cals[x].name < c.name }) = k - 1]

RECURSIVE SetupLidarAfter(_, _, _)
\* the two dictionaries after setup_lidar's loop has run over n calibrations
SetupLidarAfter(calibrations, n, dicts) ==
    IF n = 0 THEN dicts
    ELSE LET prev == SetupLidarAfter(calibrations, n - 1, dicts)
             c == calibrations[n]
             sensor == c.name
             tr == translation_and_rotation(c.extrinsic)
         IN  [translations |-> (sensor :> tr.translation) @@ prev.translations,
              rotations |-> (sensor :> tr.rotation) @@ prev.rotations]

\* setup_lidar(frame, lct_path, translations, rotations)
setup_lidar(frame_, dicts) ==
    LET calibrations == SortedCalibrations(frame_.laser_calibrations)
    IN  SetupLidarAfter(calibrations, Len(calibrations), dicts)

\* line 138: the writer calls of setup_lidar
SetupLidarWrites(frame_) ==
    LET calibrations == SortedCalibrations(frame_.laser_calibrations)
    IN  [k \in 1..Len(calibrations) |->
            [fn |-> "create_lidar_sensor_directory",
             sensor |-> Lidar_Name[calibrations[k].name]]]

\* A mutant of IsFirstFrame: setup_lidar runs on every frame.
IsAnyFrame(frame_num_) == frame_num_ >= 0

\* line 195: if frame_num == 0
IsFirstFrame(frame_num_) == frame_num_ = 0

\* lines 154-159: the sensors whose lookup raises KeyError
MissingSensors(point_clouds, dicts) ==
    { s \in 1..Len(point_clouds) :
        s \notin DOMAIN dicts.translations \/ s \notin DOMAIN dicts.rotations }

\* lines 154-159: the writer calls of extract_lidar for the first n sensors
WaymoLidarWrites(point_clouds, n, frame_num_, dicts) ==
    [k \in 1..n |->
        [fn |-> "add_lidar_frame", sensor |-> Lidar_Name[k], frame_num |-> frame_num_,
         points |-> point_clouds[k],
         translation |-> dicts.translations[k], rotation |-> dicts.rotations[k]]]

\* extract_ego: lines 68-73 of nuscenes-ct.py, lines 161-163 of waymo-ct.py
EgoWrite(frame_num_, translation, rotation) ==
    [fn |-> "create_ego_directory", frame_num |-> frame_num_,
     translation |-> translation, rotation |-> rotation]

(***************************************************************************)
(* State.                                                                  *)
(*   entry        what is run: "nuscenes" and "waymo" are the two          *)
(*                __main__ drivers, "nuscenes_fn" calls functions of       *)
(*                nuscenes-ct.py on a sample, "geometry" calls the         *)
(*                geometry utilities on two boxes                          *)
(*   pc           the position of the driver in its loop                   *)
(*   error        the exception that ended the run, or "none"              *)
(*   num_samples  the length of the source stream                         *)
(*   cur          the position of the current sample / frame in the stream *)
(*   sample       nuscenes-ct.py: the current sample                       *)
(*   frame        waymo-ct.py: the current frame                           *)
(*   frame_num    the drivers' frame counter                               *)
(*   translations, rotations   waymo-ct.py: the per-sensor dictionaries    *)
(*   written      the writer calls (utils.create_..., utils.add_...) the   *)
(*                last step made, in order (none for a loop test)          *)
(*   ego_log      <<position in the stream, frame_num>> of every           *)
(*                extract_ego call of the run                              *)
(*   boxA, boxB   the two boxes given to the geometry utilities            *)
(*   call         the last call of a geometry utility and what it returned *)
(***************************************************************************)
VARIABLES entry, pc, error, num_samples, cur, sample, frame, frame_num,
          translations, rotations, written, ego_log, boxA, boxB, call

vars == << entry, pc, error, num_samples, cur, sample, frame, frame_num,
           translations, rotations, written, ego_log, boxA, boxB, call >>

NoSample == [anns |-> <<>>, ego |-> NoPose, calib |-> NoPose, points |-> <<>>]

NoCall == [fn |-> "none"]

InitRest ==
    /\ error = "none"
    /\ frame_num = 0
    /\ translations = <<>>
    /\ rotations = <<>>
    /\ written = <<>>
    /\ ego_log = <<>>
    /\ call = NoCall

\* nuscenes-ct.py lines 175-176: the first sample of the scene, frame_num = 0
InitNuscenes ==
    /\ entry = "nuscenes"
    /\ pc = "n_while"
    /\ num_samples \in 1..MaxSamples
    /\ cur = 1
    /\ sample \in BoxSamples
    /\ frame = NoFrame
    /\ boxA = DefaultBox /\ boxB = DefaultBox
    /\ InitRest

\* waymo-ct.py lines 180-191: empty dictionaries, frame_num = 0
InitWaymo ==
    /\ entry = "waymo"
    /\ pc = "w_for"
    /\ num_samples \in 1..MaxSamples
    /\ cur = 0
    /\ sample = NoSample
    /\ frame = NoFrame
    /\ boxA = DefaultBox /\ boxB = DefaultBox
    /\ InitRest

InitNuscenesFn ==
    /\ entry = "nuscenes_fn"
    /\ pc = "call"
    /\ num_samples = 1
    /\ cur = 1
    /\ sample = NoSample
    /\ frame = NoFrame
    /\ boxA = DefaultBox /\ boxB = DefaultBox
    /\ InitRest

InitGeometry ==
    /\ entry = "geometry"
    /\ pc = "call"
    /\ num_samples = 1
    /\ cur = 1
    /\ sample = NoSample
    /\ frame = NoFrame
    /\ boxA \in Boxes1
    /\ boxB \in Boxes2
    /\ InitRest

Init == InitNuscenes \/ InitWaymo \/ InitNuscenesFn \/ InitGeometry

(***************************************************************************)
(* geometry_utils.py: calls of is_overlapping and box_dist.                *)
(***************************************************************************)
Arg(k) == IF k = 1 THEN boxA ELSE boxB

CallIsOverlapping ==
    /\ entry = "geometry"
    /\ \E a \in 1..2, b \in 1..2 :
          call' = [fn |-> "is_overlapping", a |-> a, b |-> b,
                   ret |-> is_overlapping(Arg(a), Arg(b))]
    /\ UNCHANGED << entry, pc, error, num_samples, cur, sample, frame, frame_num,
                    translations, rotations, written, ego_log, boxA, boxB >>

CallBoxDist ==
    /\ entry = "geometry"
    /\ \E a \in 1..2, b \in 1..2 :
          call' = [fn |-> "box_dist", a |-> a, b |-> b,
                   ret |-> box_dist(Arg(a), Arg(b))]
    /\ UNCHANGED << entry, pc, error, num_samples, cur, sample, frame, frame_num,
                    translations, rotations, written, ego_log, boxA, boxB >>

(***************************************************************************)
(* nuscenes-ct.py: the driver (lines 175-196).                             *)
(***************************************************************************)
\* sample['next'] of the sample at position c: '' (here 0) for the last one
NextToken(c) == IF c < num_samples THEN c + 1 ELSE 0

\* line 188: while sample['next'] != ''
NuscWhile ==
    /\ entry = "nuscenes" /\ pc = "n_while"
    /\ pc' = IF NextToken(cur) # 0 THEN "n_ego" ELSE "done"
    /\ written' = <<>>
    /\ UNCHANGED << entry, error, num_samples, cur, sample, frame, frame_num,
                    translations, rotations, ego_log, boxA, boxB, call >>

\* line 190: extract_ego(nusc, sample, frame_num, output_path)
NuscExtractEgo ==
    /\ entry = "nuscenes" /\ pc = "n_ego"
    /\ written' = << EgoWrite(frame_num, sample.ego.translation, sample.ego.rotation) >>
    /\ ego_log' = Append(ego_log, <<cur, frame_num>>)
    /\ pc' = "n_bounding"
    /\ UNCHANGED << entry, error, num_samples, cur, sample, frame, frame_num,
                    translations, rotations, boxA, boxB, call >>

\* extract_bounding(nusc, sample, frame_num, target_path): lines 75-100
NuscExtractBoundingWrite(sample_, frame_num_) ==
    BoxWrite("create_frame_bounding_directory", frame_num_,
             NuscBoundingAfter(sample_, NuscLoopCount(sample_)))

\* extract_pred_bounding(sample, frame_num, target_path): lines 102-118
NuscExtractPredBoundingWrite(sample_, frame_num_) ==
    BoxWrite("create_frame_predicted_directory", frame_num_,
             NuscPredAfter(sample_, NuscLoopCount(sample_)))

\* line 191: extract_bounding(nusc, sample, frame_num, output_path)
NuscExtractBounding ==
    /\ entry = "nuscenes" /\ pc = "n_bounding"
    /\ written' = << NuscExtractBoundingWrite(sample, frame_num) >>
    /\ pc' = "n_pred"
    /\ UNCHANGED << entry, error, num_samples, cur, sample, frame, frame_num,
                    translations, rotations, ego_log, boxA, boxB, call >>

\* lines 192-196: the call of extract_pred_bounding with four arguments raises
\* TypeError, the function taking three; otherwise the rest of the loop body
\* runs: extract_pred_bounding, extract_rgb, extract_lidar, frame_num += 1 and
\* sample = nusc.get('sample', sample['next'])
NuscRestOfBody ==
    /\ entry = "nuscenes" /\ pc = "n_pred"
    /\ IF PredBoundingArgs # PredBoundingParams
       THEN /\ pc' = "crashed"
            /\ error' = "TypeError"
            /\ UNCHANGED << cur, sample, frame_num, written >>
       ELSE /\ written' = << NuscExtractPredBoundingWrite(sample, frame_num),
                             NuscLidarWrite(sample, frame_num) >>
            /\ frame_num' = frame_num + 1
            /\ cur' = NextToken(cur)
            /\ sample' \in BoxSamples
            /\ pc' = "n_while"
            /\ error' = error
    /\ UNCHANGED << entry, num_samples, frame, translations, rotations, ego_log,
                    boxA, boxB, call >>

(***************************************************************************)
(* nuscenes-ct.py: one call of a function on a sample of the database,     *)
(* with the module's global nusc in place.                                 *)
(***************************************************************************)
CallExtractPredBounding ==
    /\ entry = "nuscenes_fn" /\ pc = "call"
    /\ pc' = "returned"
    /\ \E s \in BoxSamples, n \in 0..1 :
          /\ sample' = s
          /\ frame_num' = n
          /\ written' = << NuscExtractPredBoundingWrite(s, n) >>
    /\ UNCHANGED << entry, error, num_samples, cur, frame, translations,
                    rotations, ego_log, boxA, boxB, call >>

CallExtractLidar ==
    /\ entry = "nuscenes_fn" /\ pc = "call"
    /\ pc' = "returned"
    /\ \E s \in LidarSamples, n \in 0..1 :
          /\ sample' = s
          /\ frame_num' = n
          /\ written' = << NuscLidarWrite(s, n) >>
    /\ UNCHANGED << entry, error, num_samples, cur, frame, translations,
                    rotations, ego_log, boxA, boxB, call >>

(***************************************************************************)
(* waymo-ct.py: the driver (lines 190-202).                                *)
(***************************************************************************)
\* lines 192-194: for data in dataset: frame = ...ParseFromString(...)
WaymoFor ==
    /\ entry = "waymo" /\ pc = "w_for"
    /\ IF cur < num_samples
       THEN /\ frame' \in Frames
            /\ cur' = cur + 1
            /\ pc' = "w_setup"
       ELSE /\ pc' = "done"
            /\ UNCHANGED << frame, cur >>
    /\ written' = <<>>
    /\ UNCHANGED << entry, error, num_samples, sample, frame_num, translations,
                    rotations, ego_log, boxA, boxB, call >>

\* lines 195-196: if frame_num == 0: setup_lidar(...)
WaymoSetup ==
    /\ entry = "waymo" /\ pc = "w_setup"
    /\ IF IsFirstFrame(frame_num)
       THEN LET dicts == setup_lidar(frame, [translations |-> translations,
                                             rotations |-> rotations])
            IN  /\ translations' = dicts.translations
                /\ rotations' = dicts.rotations
                /\ written' = SetupLidarWrites(frame)
       ELSE /\ written' = <<>>
            /\ UNCHANGED << translations, rotations >>
    /\ pc' = "w_lidar"
    /\ UNCHANGED << entry, error, num_samples, cur, sample, frame, frame_num,
                    ego_log, boxA, boxB, call >>

\* line 199: extract_lidar(frame, frame_num, output_path, translations, rotations)
WaymoExtractLidar ==
    /\ entry = "waymo" /\ pc = "w_lidar"
    /\ LET point_clouds == PointClouds(frame.laser_calibrations)
           dicts == [translations |-> translations, rotations |-> rotations]
           missing == MissingSensors(point_clouds, dicts)
       IN  IF missing = {}
           THEN /\ written' = WaymoLidarWrites(point_clouds, Len(point_clouds),
                                               frame_num, dicts)
                /\ pc' = "w_ego"
                /\ error' = error
           ELSE /\ written' = WaymoLidarWrites(point_clouds,
                                   (CHOOSE s \in missing : \A t \in missing : s <= t) - 1,
                                   frame_num, dicts)
                /\ pc' = "crashed"
                /\ error' = "KeyError(sensor)"
    /\ UNCHANGED << entry, num_samples, cur, sample, frame, frame_num, translations,
                    rotations, ego_log, boxA, boxB, call >>

\* line 200: extract_ego(frame, frame_num, output_path)
WaymoExtractEgo ==
    /\ entry = "waymo" /\ pc = "w_ego"
    /\ LET tr == translation_and_rotation(frame.pose)
       IN  written' = << EgoWrite(frame_num, tr.translation, tr.rotation) >>
    /\ ego_log' = Append(ego_log, <<cur, frame_num>>)
    /\ pc' = "w_bounding"
    /\ UNCHANGED << entry, error, num_samples, cur, sample, frame, frame_num,
                    translations, rotations, boxA, boxB, call >>

\* lines 201-202: extract_bounding(frame, frame_num, output_path); frame_num += 1
WaymoExtractBounding ==
    /\ entry = "waymo" /\ pc = "w_bounding"
    /\ LET l == WaymoBoundingAfter(frame, Len(frame.laser_labels))
       IN  IF l.raised
           THEN /\ pc' = "crashed"
                /\ error' = "KeyError(label.type)"
                /\ UNCHANGED << written, frame_num >>
           ELSE /\ written' = << BoxWrite("create_frame_bounding_directory",
                                          frame_num, l) >>
                /\ frame_num' = frame_num + 1
                /\ pc' = "w_for"
                /\ error' = error
    /\ UNCHANGED << entry, num_samples, cur, sample, frame, translations,
                    rotations, ego_log, boxA, boxB, call >>

Next ==
    \/ CallIsOverlapping
    \/ CallBoxDist
    \/ NuscWhile
    \/ NuscExtractEgo
    \/ NuscExtractBounding
    \/ NuscRestOfBody
    \/ CallExtractPredBounding
    \/ CallExtractLidar
    \/ WaymoFor
    \/ WaymoSetup
    \/ WaymoExtractLidar
    \/ WaymoExtractEgo
    \/ WaymoExtractBounding

Spec == Init /\ [][Next]_vars

(***************************************************************************)
(* Vocabulary of the claims.                                               *)
(***************************************************************************)
\* rotate(p, q): the quaternion sandwich q p q^-1 of a point by a doubled
\* unit quaternion
rotate(p, q) ==
    LET r == QMulRaw(QMulRaw(q, <<0, p[1], p[2], p[3]>>), QInverse(q))
    IN  <<r[2] \div 4, r[3] \div 4, r[4] \div 4>>

\* invert(T): rotation = conjugate(T.rotation),
\* translation = rotate(-T.translation, conjugate(T.rotation))
invert(T) ==
    [rotation |-> QInverse(T.rotation),
     translation |-> rotate(VNeg(T.translation), QInverse(T.rotation))]

\* apply_point(T, p) = rotate(p, T.rotation) + T.translation
apply_point(T, p) == VAdd(rotate(p, T.rotation), T.translation)

BoundingFn == "create_frame_bounding_directory"

PredictedFn == "create_frame_predicted_directory"

\* extract_bounding of nuscenes-ct.py has handed the boxes of `sample` over
NuscBoundingWritten ==
    /\ entry = "nuscenes" /\ pc \in {"n_pred", "crashed"}
    /\ Len(written) = 1 /\ written[1].fn = BoundingFn

\* extract_pred_bounding of nuscenes-ct.py has handed the boxes of `sample` over
NuscPredWritten ==
    /\ entry = "nuscenes_fn"
    /\ Len(written) = 1 /\ written[1].fn = PredictedFn

\* extract_bounding of waymo-ct.py has handed the boxes of `frame` over
WaymoBoundingWritten ==
    /\ entry = "waymo" /\ pc = "w_for"
    /\ Len(written) = 1 /\ written[1].fn = BoundingFn

\* extract_bounding of waymo-ct.py has ended on `frame`, by a return or by
\* an exception
WaymoBoundingEnded ==
    /\ entry = "waymo"
    /\ \/ pc = "w_for" /\ cur >= 1
       \/ pc = "crashed" /\ error = "KeyError(label.type)"

\* the i-th box of a writer call
BoxAt(w, i) ==
    [origin |-> w.origins[i], size |-> w.sizes[i], rotation |-> w.rotations[i],
     annotation_name |-> w.annotation_names[i], confidence |-> w.confidences[i]]

\* the box one iteration of a loop appends to the empty lists
FirstBox(l) ==
    [origin |-> l.origins[1], size |-> l.sizes[1], rotation |-> l.rotations[1],
     annotation_name |-> l.annotation_names[1], confidence |-> l.confidences[1]]

NuscConverted(ann, ego) == FirstBox(NuscBoundingIter(EmptyLists, ann, ego))

NuscPredConverted(ann) == FirstBox(NuscPredIter(EmptyLists, ann))

WaymoConverted(label, transform) ==
    FirstBox(WaymoBoundingIter(WaymoBoundingAfter(NoFrame, 0), label, transform))

EqualLengths(w) ==
    /\ Len(w.sizes) = Len(w.origins)
    /\ Len(w.rotations) = Len(w.origins)
    /\ Len(w.annotation_names) = Len(w.origins)
    /\ Len(w.confidences) = Len(w.origins)

ValidLabel(label) == label.type \in DOMAIN annotation_dict

(***************************************************************************)
(* Claims.                                                                 *)
(***************************************************************************)
\* C1: the bounding-box conversion of one frame emits exactly N boxes for a
\* frame of N source annotations (N = 0 included), and the i-th emitted box
\* is the conversion of the i-th source annotation, in extract_bounding and
\* extract_pred_bounding of nuscenes-ct.py and in extract_bounding of
\* waymo-ct.py.
C1_OneBoxPerAnnotation ==
    /\ NuscBoundingWritten =>
          /\ Len(written[1].origins) = Len(sample.anns)
          /\ \A i \in 1..Len(sample.anns) :
                BoxAt(written[1], i) = NuscConverted(sample.anns[i], sample.ego)
    /\ NuscPredWritten =>
          /\ Len(written[1].origins) = Len(sample.anns)
          /\ \A i \in 1..Len(sample.anns) :
                BoxAt(written[1], i) = NuscPredConverted(sample.anns[i])
    /\ WaymoBoundingWritten =>
          /\ Len(written[1].origins) = Len(frame.laser_labels)
          /\ \A i \in 1..Len(frame.laser_labels) :
                BoxAt(written[1], i) = WaymoConverted(frame.laser_labels[i], frame.pose)

\* The part of C1 that holds: waymo-ct.py emits one box per label.
C1_WaymoOneBoxPerLabel ==
    WaymoBoundingWritten =>
       /\ Len(written[1].origins) = Len(frame.laser_labels)
       /\ \A i \in 1..Len(frame.laser_labels) :
             BoxAt(written[1], i) = WaymoConverted(frame.laser_labels[i], frame.pose)

\* The part of C1 that the loop bound of nuscenes-ct.py leaves: the boxes
\* emitted are the conversions of all annotations but the last.
C1_NuscAllButLast ==
    NuscBoundingWritten =>
       /\ Len(written[1].origins) = NuscLoopCount(sample)
       /\ \A i \in 1..NuscLoopCount(sample) :
             BoxAt(written[1], i) = NuscConverted(sample.anns[i], sample.ego)

\* C2: in a run over a stream of K >= 1 samples the driver loop numbers the
\* samples 0, 1, ..., K-1 in source order: once the loop has ended, every
\* sample of the stream, the last one included, has been processed under
\* exactly one frame number, position p under frame number p - 1.
C2_EverySampleNumbered ==
    pc = "done" => ego_log = [p \in 1..num_samples |-> <<p, p - 1>>]

\* The part of C2 that holds in both drivers: the frame numbers handed out
\* start at 0 and increase by one, in source order.
C2_NumbersInOrder ==
    \A k \in 1..Len(ego_log) : ego_log[k] = <<k, k - 1>>

\* C3: a failure while converting one annotation of a frame (an unknown
\* label type) neither drops nor corrupts its siblings: when
\* extract_bounding has ended on the frame, the writer has been handed the
\* conversions of all the other annotations, in order.
C3_SiblingsSurvive ==
    WaymoBoundingEnded =>
       LET good == SelectSeq(frame.laser_labels, ValidLabel)
       IN  /\ Len(written) = 1
           /\ written[1].fn = BoundingFn
           /\ written[1].frame_num = cur - 1
           /\ Len(written[1].origins) = Len(good)
           /\ \A i \in 1..Len(good) :
                 BoxAt(written[1], i) = WaymoConverted(good[i], frame.pose)

\* C4: for every ground-truth box and every frame pose the emitted centre
\* is apply_point(invert(framePose), center); with pose translation (1,0,0)
\* and the identity rotation a box centre (2,0,0) is emitted as (1,0,0); in
\* nuscenes-ct.py and in waymo-ct.py.
C4_CenterInVehicleFrame ==
    /\ NuscBoundingWritten =>
          \A i \in 1..Len(written[1].origins) :
             written[1].origins[i] =
                apply_point(invert(sample.ego), sample.anns[i].translation)
    /\ WaymoBoundingWritten =>
          \A i \in 1..Len(written[1].origins) :
             LET framePose == translation_and_rotation(frame.pose)
                 box == frame.laser_labels[i].box
                 center == <<box.center_x, box.center_y, box.center_z>>
             IN  /\ written[1].origins[i] = apply_point(invert(framePose), center)
                 /\ (framePose.translation = <<1, 0, 0>>
                     /\ framePose.rotation = QIdentity
                     /\ center = <<2, 0, 0>>)
                       => written[1].origins[i] = <<1, 0, 0>>

\* The part of C4 that holds: nuscenes-ct.py emits the centre in the
\* vehicle frame.
C4_NuscCenterInVehicleFrame ==
    NuscBoundingWritten =>
       \A i \in 1..Len(written[1].origins) :
          /\ written[1].origins[i] =
                apply_point(invert(sample.ego), sample.anns[i].translation)
          /\ (sample.ego.translation = <<1, 0, 0>> /\ sample.ego.rotation = QIdentity
              /\ sample.anns[i].translation = <<2, 0, 0>>)
                => written[1].origins[i] = <<1, 0, 0>>

\* C5: is_overlapping(A, B) is true if and only if on each of the three
\* axes origin - size/2 of A <= origin + size/2 of B and origin + size/2 of A
\* >= origin - size/2 of B (both sides doubled here); touching faces count
\* as overlapping; A at (0,0,0) of size (2,2,2) overlaps B of size (2,2,2)
\* at (1,1,1) and not at (3,3,3).
C5_OverlapIffEveryAxis ==
    call.fn = "is_overlapping" =>
       LET A == Arg(call.a)
           B == Arg(call.b)
       IN  /\ call.ret <=>
                 \A axis \in 1..3 :
                    /\ 2 * A.origin[axis] - A.size[axis] <= 2 * B.origin[axis] + B.size[axis]
                    /\ 2 * A.origin[axis] + A.size[axis] >= 2 * B.origin[axis] - B.size[axis]
           /\ (A = [origin |-> <<0, 0, 0>>, size |-> <<2, 2, 2>>]
               /\ B = [origin |-> <<1, 1, 1>>, size |-> <<2, 2, 2>>]) => call.ret
           /\ (A = [origin |-> <<0, 0, 0>>, size |-> <<2, 2, 2>>]
               /\ B = [origin |-> <<3, 3, 3>>, size |-> <<2, 2, 2>>]) => ~call.ret

\* is_overlapping has returned True for two boxes that only touch.
C5_Witness ==
    /\ call.fn = "is_overlapping" /\ call.a = 1 /\ call.b = 2
    /\ boxA = [origin |-> <<0, 0, 0>>, size |-> <<2, 2, 2>>]
    /\ boxB = [origin |-> <<2, 2, 2>>, size |-> <<2, 2, 2>>]
    /\ call.ret

\* C6: is_overlapping(A, B) = is_overlapping(B, A), box_dist(A, B) =
\* box_dist(B, A) and box_dist(A, A) = 0 for all boxes A and B, and neither
\* call changes its argument boxes.
C6_Symmetric ==
    /\ [](call.fn = "is_overlapping" =>
             call.ret = is_overlapping(Arg(call.b), Arg(call.a)))
    /\ [](call.fn = "box_dist" =>
             /\ call.ret = box_dist(Arg(call.b), Arg(call.a))
             /\ Arg(call.a) = Arg(call.b) => call.ret = 0)
    /\ [][call' # call => (boxA' = boxA /\ boxB' = boxB)]_vars

\* box_dist has returned a distance that is not zero, and is_overlapping
\* would tell the two boxes apart from touching ones.
C6_Witness ==
    /\ call.fn = "box_dist" /\ call.a = 2 /\ call.b = 1
    /\ boxA.origin = <<1, 1, 1>> /\ boxA.size = <<1, 2, 4>>
    /\ boxB.origin = <<3, 0, 2>> /\ boxB.size = <<0, 0, 0>>
    /\ call.ret = 2449

\* C7: whenever a converter hands a frame's boxes to the writer, origins,
\* sizes, rotations, annotation_names and confidences have the same length
\* and index i of each describes the same source annotation; the lengths
\* are equal after every iteration of the annotation loop.
C7_ParallelListsAligned ==
    /\ \A k \in 1..Len(written) :
          written[k].fn \in {BoundingFn, PredictedFn} => EqualLengths(written[k])
    /\ NuscBoundingWritten =>
          \A i \in 1..Len(written[1].origins) :
             BoxAt(written[1], i) = NuscConverted(sample.anns[i], sample.ego)
    /\ NuscPredWritten =>
          \A i \in 1..Len(written[1].origins) :
             BoxAt(written[1], i) = NuscPredConverted(sample.anns[i])
    /\ WaymoBoundingWritten =>
          \A i \in 1..Len(written[1].origins) :
             BoxAt(written[1], i) = WaymoConverted(frame.laser_labels[i], frame.pose)
    /\ \A n \in 0..NuscLoopCount(sample) :
          /\ EqualLengths(NuscBoundingAfter(sample, n))
          /\ EqualLengths(NuscPredAfter(sample, n))
          /\ Len(NuscBoundingAfter(sample, n).origins) = n
          /\ Len(NuscPredAfter(sample, n).origins) = n
    /\ \A n \in 0..Len(frame.laser_labels) :
          LET l == WaymoBoundingAfter(frame, n)
          IN  ~l.raised => (EqualLengths(l) /\ Len(l.origins) = n)

\* waymo-ct.py has handed two boxes of different labels to the writer.
C7_Witness ==
    /\ WaymoBoundingWritten
    /\ Len(written[1].origins) = 2
    /\ written[1].annotation_names = <<"Pedestrian", "Vehicle">>
    /\ written[1].confidences = <<100, 100>>

C9_LidarTransform ==
    \A k \in 1..Len(written) :
       (entry = "nuscenes_fn" /\ written[k].fn = "add_lidar_frame") =>
          /\ Len(written[k].points) = Len(sample.points)
          /\ \A i \in 1..Len(sample.points) :
                LET p == <<sample.points[i][1], sample.points[i][2], sample.points[i][3]>>
                IN  /\ written[k].points[i] =
                          VAdd(rotate(p, sample.calib.rotation), sample.calib.translation)
                    /\ (sample.calib = NoPose) => written[k].points[i] = p

\* extract_lidar has transformed two points by a calibration that rotates
\* and translates.
C9_Witness ==
    /\ entry = "nuscenes_fn"
    /\ Len(written) = 1 /\ written[1].fn = "add_lidar_frame"
    /\ sample.calib = [translation |-> <<1, 2, 0>>, rotation |-> <<1, 1, 1, 1>>]
    /\ sample.points = << <<0, 2, 3, 9>>, <<1, 0, 0, 7>> >>
    /\ written[1].points = << <<4, 2, 2>>, <<1, 3, 0>> >>

\* the dimensions of a nuScenes annotation ('size' is width, length, height)
\* and of a Waymo label
NuscDims(ann) == [width |-> ann.size[1], length |-> ann.size[2], height |-> ann.size[3]]

WaymoDims(label) ==
    [width |-> label.box.width, length |-> label.box.length, height |-> label.box.height]

\* C10 as amended: for every converted box the emitted size is the source
\* annotation's dimensions, whatever the ego pose, in the order (width,
\* length, height), in nuscenes-ct.py and in waymo-ct.py.
C10_SizeWidthLengthHeight ==
    /\ NuscBoundingWritten =>
          \A i \in 1..Len(written[1].sizes) :
             LET d == NuscDims(sample.anns[i])
             IN  written[1].sizes[i] = <<d.width, d.length, d.height>>
    /\ WaymoBoundingWritten =>
          \A i \in 1..Len(written[1].sizes) :
             LET d == WaymoDims(frame.laser_labels[i])
             IN  written[1].sizes[i] = <<d.width, d.length, d.height>>

\* C10: for every converted box the emitted size is the source annotation's
\* dimensions, whatever the ego pose, in the order (length, width, height),
\* in nuscenes-ct.py and in waymo-ct.py.
C10_SizeLengthWidthHeight ==
    /\ NuscBoundingWritten =>
          \A i \in 1..Len(written[1].sizes) :
             LET d == NuscDims(sample.anns[i])
             IN  written[1].sizes[i] = <<d.length, d.width, d.height>>
    /\ WaymoBoundingWritten =>
          \A i \in 1..Len(written[1].sizes) :
             LET d == WaymoDims(frame.laser_labels[i])
             IN  written[1].sizes[i] = <<d.length, d.width, d.height>>

\* waymo-ct.py has emitted the size of a label under a pose that rotates.
C10_Witness ==
    /\ WaymoBoundingWritten
    /\ frame.pose = PoseMatrix([translation |-> <<1, 2, 0>>, rotation |-> <<1, 1, 1, 1>>])
    /\ Len(written[1].sizes) = 1
    /\ written[1].sizes[1] = <<2, 5, 2>>
    /\ frame.laser_labels[1].box.length = 5

=============================================================================
